---- MODULE Spec2Model ----
(***************************************************************************)
(* Slack KPI integration: Slack individual channels (src/src/slack_client  *)
(* .py) are ingested, tabulated (src/src/kpi_sync.py) and written to a     *)
(* Google spreadsheet (src/src/sheets_client.py) by the sync command of    *)
(* src/main.py.                                                            *)
(*                                                                         *)
(* Python strings are sequences of Unicode code points, so that string     *)
(* comparison, slicing, strip() and the regular expressions act on them as *)
(* they do in the program.                                                 *)
(***************************************************************************)
EXTENDS Integers, Sequences, FiniteSets, TLC

(***************************************************************************)
(* Bounds of the model.                                                    *)
(***************************************************************************)
\* API calls that may fail during one run of the command
MaxFaults == 3

(***************************************************************************)
(* Strings.                                                                *)
(***************************************************************************)
\* str.isspace() / the class \s of re on str: the Unicode whitespace
Whitespace ==
    {9, 10, 11, 12, 13, 28, 29, 30, 31, 32, 133, 160, 5760, 8232, 8233, 8239, 8287, 12288}
        \cup (8192 .. 8202)

\* the class \d of re on str, restricted to the ASCII and the full-width digits
Digits == (48 .. 57) \cup (65296 .. 65305)

\* ':' and the full-width colon
Colons == {58, 65306}

\* the class [:\s(full-width colon)] of the patterns
SepChars == Colons \cup Whitespace

\* the alternation (%|件|円|人|回)
Units == {37, 20214, 20870, 20154, 22238}

\* the class [数件率]
KeywordSuffix == {25968, 20214, 29575}

\* the alternation (売上|契約|アポ|架電|面談|成約)
Keywords ==
    {<<22770, 19978>>, <<22865, 32004>>, <<12450, 12509>>,
     <<26550, 38651>>, <<38754, 35527>>, <<25104, 32004>>}

Dot == {46}
OpenBracket == {12304}
CloseBracket == {12305}

\* s[i:]  (1-based i, the characters from position i on)
Drop(s, i) == SubSeq(s, i, Len(s))

TakeAll(s, n) == s

\* s[:n]
Take(s, n) == SubSeq(s, 1, IF n < Len(s) THEN n ELSE Len(s))

In(s, i, S) == i >= 1 /\ i <= Len(s) /\ s[i] \in S
NotIn(s, i, S) == i >= 1 /\ i <= Len(s) /\ s[i] \notin S

\* the last position of the longest run of characters of S that starts at i
\* (i - 1 when s[i] is not in S): a greedy S*
RECURSIVE RunEnd(_, _, _)
RunEnd(s, i, S) == IF In(s, i, S) THEN RunEnd(s, i + 1, S) ELSE i - 1

\* the same for the negated class [^...]
RECURSIVE RunEndNot(_, _, _)
RunEndNot(s, i, S) == IF NotIn(s, i, S) THEN RunEndNot(s, i + 1, S) ELSE i - 1

\* str.strip()
RECURSIVE LStrip(_)
LStrip(s) == IF s # <<>> /\ Head(s) \in Whitespace THEN LStrip(Tail(s)) ELSE s

RECURSIVE RStrip(_)
RStrip(s) ==
    IF s # <<>> /\ s[Len(s)] \in Whitespace THEN RStrip(SubSeq(s, 1, Len(s) - 1)) ELSE s

Strip(s) == RStrip(LStrip(s))

\* str(n) for n >= 0: the decimal digits
RECURSIVE Str(_)
Str(n) == IF n < 10 THEN <<48 + n>> ELSE Str(n \div 10) \o <<48 + (n % 10)>>

\* lexicographic order of str (by code point)
RECURSIVE StrLess(_, _)
StrLess(a, b) ==
    IF b = <<>> THEN FALSE
    ELSE IF a = <<>> THEN TRUE
    ELSE IF Head(a) # Head(b) THEN Head(a) < Head(b)
    ELSE StrLess(Tail(a), Tail(b))

(***************************************************************************)
(* dict: the keys in insertion order, each with its value.  Assigning to a *)
(* key that is present keeps its position and replaces its value.          *)
(***************************************************************************)
DictKeys(d) == {d[i][1] : i \in DOMAIN d}

DictHas(d, k) == k \in DictKeys(d)

DictGet(d, k) == d[CHOOSE i \in DOMAIN d : d[i][1] = k][2]

DictSetKeepFirst(d, k, v) == IF DictHas(d, k) THEN d ELSE Append(d, <<k, v>>)

DictSet(d, k, v) ==
    IF DictHas(d, k)
    THEN [i \in DOMAIN d |-> IF d[i][1] = k THEN <<k, v>> ELSE d[i]]
    ELSE Append(d, <<k, v>>)

(***************************************************************************)
(* SlackKPIClient._extract_kpi_values.  A match is <<end, key, value>>,    *)
(* end = 0 when the pattern does not match at the position.                *)
(***************************************************************************)
\* \d+(?:\.\d+)?(?:%|件|円|人|回)? at position i: the position of its last
\* character, 0 when there is no digit at i
NumberEnd(s, i) ==
    IF ~In(s, i, Digits) THEN 0
    ELSE LET d == RunEnd(s, i, Digits)
             f == IF In(s, d + 1, Dot) /\ In(s, d + 2, Digits)
                  THEN RunEnd(s, d + 2, Digits) ELSE d
         IN  IF In(s, f + 1, Units) THEN f + 1 ELSE f

NoMatch == <<0, <<>>, <<>>>>

\* ([^\s:：]+)[:\s：]+(number)
MatchLabeled(s, i) ==
    LET l == RunEndNot(s, i, SepChars)
        p == RunEnd(s, l + 1, SepChars)
        e == NumberEnd(s, p + 1)
    IN  IF l >= i /\ p >= l + 1 /\ e > 0
        THEN <<e, SubSeq(s, i, l), SubSeq(s, p + 1, e)>>
        ELSE NoMatch

\* 【([^】]+)】\s*(number)
MatchBracketed(s, i) ==
    LET l == RunEndNot(s, i + 1, CloseBracket)
        w == RunEnd(s, l + 2, Whitespace)
        e == NumberEnd(s, w + 1)
    IN  IF In(s, i, OpenBracket) /\ l >= i + 1 /\ In(s, l + 1, CloseBracket) /\ e > 0
        THEN <<e, SubSeq(s, i + 1, l), SubSeq(s, w + 1, e)>>
        ELSE NoMatch

\* (売上|契約|アポ|架電|面談|成約)[数件率]?\s*[:\s：]*(number)
MatchKeyword(s, i) ==
    LET k == IF In(s, i + 2, KeywordSuffix) THEN i + 2 ELSE i + 1
        p == RunEnd(s, k + 1, SepChars)
        e == NumberEnd(s, p + 1)
    IN  IF i + 1 <= Len(s) /\ SubSeq(s, i, i + 1) \in Keywords /\ e > 0
        THEN <<e, SubSeq(s, i, i + 1), SubSeq(s, p + 1, e)>>
        ELSE NoMatch

PatternMatch(family, s, i) ==
    CASE family = 1 -> MatchLabeled(s, i)
      [] family = 2 -> MatchBracketed(s, i)
      [] family = 3 -> MatchKeyword(s, i)

\* re.findall(pattern, text): the non-overlapping matches, leftmost first,
\* each stored under its stripped key
RECURSIVE FindAll(_, _, _, _)
FindAll(family, s, i, kpi) ==
    IF i > Len(s) THEN kpi
    ELSE LET m == PatternMatch(family, s, i)
         IN  IF m[1] > 0
             THEN FindAll(family, s, m[1] + 1, DictSet(kpi, Strip(m[2]), Strip(m[3])))
             ELSE FindAll(family, s, i + 1, kpi)

ExtractKpiValues(text) == FindAll(3, text, 1, FindAll(2, text, 1, FindAll(1, text, 1, <<>>)))

(***************************************************************************)
(* Optional[T]: <<>> is None, <<x>> is the value x.                        *)
(***************************************************************************)
None == <<>>
Some(x) == <<x>>

(***************************************************************************)
(* Channel classifier (slack_client.py).                                   *)
(***************************************************************************)
\* the literal 個人_ of INDIVIDUAL_CHANNEL_PATTERN
IndividualPrefix == <<20491, 20154, 95>>

Newline == {10}

\* INDIVIDUAL_CHANNEL_PATTERN.match(name), the pattern ^個人_(.+)$ : '.' is
\* any character but a line break, '$' is the end of the string or the
\* position before a line break that ends the string.  <<>> when there is no
\* match, <<group 1>> otherwise.
PatternGroup(name) ==
    LET k == Len(IndividualPrefix)
        r == RunEndNot(name, k + 1, Newline)
    IN  IF Len(name) > k /\ SubSeq(name, 1, k) = IndividualPrefix /\ r >= k + 1
           /\ (r = Len(name) \/ (r + 1 = Len(name) /\ name[r + 1] \in Newline))
        THEN Some(SubSeq(name, k + 1, r))
        ELSE None

IsIndividualChannel(name) == PatternGroup(name) # None

ExtractPersonName(channel_name) == PatternGroup(channel_name)

\* extract_person_name(name) or name
PersonOrName(name) ==
    IF ExtractPersonName(name) # None /\ ExtractPersonName(name)[1] # <<>>
    THEN ExtractPersonName(name)[1]
    ELSE name

\* get_individual_channels: the channels of the listing whose name matches
RECURSIVE GetIndividualChannels(_)
GetIndividualChannels(all_channels) ==
    IF all_channels = <<>> THEN <<>>
    ELSE (IF IsIndividualChannel(Head(all_channels).name)
          THEN <<Head(all_channels)>> ELSE <<>>)
         \o GetIndividualChannels(Tail(all_channels))

(***************************************************************************)
(* Time.  A Slack ts and a datetime are counted in ticks, TicksPerSecond   *)
(* to the second; the local zone is a fixed offset from UTC, left out.     *)
(***************************************************************************)
TicksPerSecond == 2

\* datetime.fromtimestamp(float(ts))
FromTimestamp(ts) == ts

\* strftime("%Y-%m-%d %H:%M:%S"): the text of the whole second, the
\* fraction is dropped
Strftime(t) == Str(t \div TicksPerSecond)

(***************************************************************************)
(* Message parsing (slack_client.py).                                      *)
(***************************************************************************)
ParseDropsWithoutKpi(message, channel_info) ==
    IF ExtractKpiValues(message.text) = <<>> THEN None
    ELSE Some([channel_id |-> channel_info.id,
               channel_name |-> channel_info.name,
               user_name |-> PersonOrName(channel_info.name),
               timestamp |-> FromTimestamp(message.ts),
               text |-> message.text,
               kpi_values |-> ExtractKpiValues(message.text)])

\* parse_kpi_message: None, or the KPIMessage of the raw message
ParseKpiMessage(message, channel_info) ==
    LET text == message.text
        kpi_values == ExtractKpiValues(text)
    IN  IF kpi_values = <<>> /\ Strip(text) = <<>> THEN None
        ELSE Some([channel_id |-> channel_info.id,
                   channel_name |-> channel_info.name,
                   user_name |-> PersonOrName(channel_info.name),
                   timestamp |-> FromTimestamp(message.ts),
                   text |-> text,
                   kpi_values |-> kpi_values])

\* the loop of get_kpi_data_from_channel over the fetched messages
RECURSIVE ParseAll(_, _)
ParseAll(msgs, channel_info) ==
    IF msgs = <<>> THEN <<>>
    ELSE ParseKpiMessage(Head(msgs), channel_info) \o ParseAll(Tail(msgs), channel_info)

(***************************************************************************)
(* Aggregator / tabulator (kpi_sync.py).  A table is a sequence of rows, a *)
(* row a sequence of cells, a cell a string.                               *)
(***************************************************************************)
\* KPI概要 and 詳細_
OverviewSheet == <<75, 80, 73, 27010, 35201>>
DetailSheetPrefix == <<35443, 32048, 95>>

\* 氏名, チャンネル名, メッセージ数, 最新メッセージ日時, 最新メッセージ内容, 同期日時
OverviewHeaders ==
    << <<27663, 21517>>,
       <<12481, 12515, 12531, 12493, 12523, 21517>>,
       <<12513, 12483, 12475, 12540, 12472, 25968>>,
       <<26368, 26032, 12513, 12483, 12475, 12540, 12472, 26085, 26178>>,
       <<26368, 26032, 12513, 12483, 12475, 12540, 12472, 20869, 23481>>,
       <<21516, 26399, 26085, 26178>> >>

\* 日時, メッセージ内容, 抽出KPI
DetailHeaders ==
    << <<26085, 26178>>,
       <<12513, 12483, 12475, 12540, 12472, 20869, 23481>>,
       <<25277, 20986, 75, 80, 73>> >>

Dash == <<45>>
Ellipsis == <<46, 46, 46>>
CommaSpace == <<44, 32>>
ColonSpace == <<58, 32>>

\* text[:200] is kept of a longer latest message
TruncateLen == 200

\* sorted(kpi_data.items()) in dictionary order instead of key order
SortedItemsUnsorted(items) == items

\* sorted(kpi_data.items()): the items by ascending key (the keys of a dict
\* are distinct, so the values are never compared)
RECURSIVE SortedItems(_)
SortedItems(items) ==
    IF items = <<>> THEN <<>>
    ELSE LET x == Head(items)
             rest == SortedItems(Tail(items))
             lo == SelectSeq(rest, LAMBDA y : StrLess(y[1], x[1]))
             hi == SelectSeq(rest, LAMBDA y : ~StrLess(y[1], x[1]))
         IN  lo \o <<x>> \o hi

RECURSIVE MaxByTimestampLast(_)
MaxByTimestampLast(messages) ==
    IF Len(messages) = 1 THEN messages[1]
    ELSE LET best == MaxByTimestampLast(SubSeq(messages, 1, Len(messages) - 1))
             last == messages[Len(messages)]
         IN  IF last.timestamp >= best.timestamp THEN last ELSE best

\* max(messages, key=lambda m: m.timestamp): the first of the messages with
\* the greatest timestamp
RECURSIVE MaxByTimestamp(_)
MaxByTimestamp(messages) ==
    IF Len(messages) = 1 THEN messages[1]
    ELSE LET best == MaxByTimestamp(SubSeq(messages, 1, Len(messages) - 1))
             last == messages[Len(messages)]
         IN  IF last.timestamp > best.timestamp THEN last ELSE best

LatestTextCutEarly(text) ==
    IF Len(text) >= TruncateLen THEN Take(text, TruncateLen) \o Ellipsis ELSE text

\* latest_msg.text[:200] + "..." if len(latest_msg.text) > 200 else
\* latest_msg.text
LatestText(text) ==
    IF Len(text) > TruncateLen THEN Take(text, TruncateLen) \o Ellipsis ELSE text

OverviewRow(person_name, messages, sync_time) ==
    LET latest_msg == MaxByTimestamp(messages)
        latest_time == IF messages # <<>> THEN Strftime(latest_msg.timestamp) ELSE Dash
        latest_text == IF messages # <<>> THEN LatestText(latest_msg.text) ELSE Dash
    IN  << person_name,
           IndividualPrefix \o person_name,
           Str(Len(messages)),
           latest_time,
           latest_text,
           sync_time >>

RECURSIVE OverviewRows(_, _)
OverviewRows(items, sync_time) ==
    IF items = <<>> THEN <<>>
    ELSE <<OverviewRow(Head(items)[1], Head(items)[2], sync_time)>>
         \o OverviewRows(Tail(items), sync_time)

\* _prepare_overview_data, now being datetime.now()
PrepareOverviewData(kpi_data, now) ==
    <<OverviewHeaders>> \o OverviewRows(SortedItems(kpi_data), Strftime(now))

\* sorted(...) without reverse=True: oldest first
SortedOldestFirst(messages) ==
    LET RECURSIVE Asc(_)
        Asc(ms) ==
            IF ms = <<>> THEN <<>>
            ELSE LET x == Head(ms)
                     rest == Asc(Tail(ms))
                 IN  SelectSeq(rest, LAMBDA y : y.timestamp < x.timestamp)
                     \o <<x>>
                     \o SelectSeq(rest, LAMBDA y : ~(y.timestamp < x.timestamp))
    IN  Asc(messages)

\* sorted(messages, key=lambda m: m.timestamp, reverse=True): newest first,
\* messages of equal timestamp in their input order (the sort is stable)
RECURSIVE SortedNewestFirst(_)
SortedNewestFirst(messages) ==
    IF messages = <<>> THEN <<>>
    ELSE LET x == Head(messages)
             rest == SortedNewestFirst(Tail(messages))
         IN  SelectSeq(rest, LAMBDA y : y.timestamp > x.timestamp)
             \o <<x>>
             \o SelectSeq(rest, LAMBDA y : ~(y.timestamp > x.timestamp))

\* ", ".join(f"{k}: {v}" for k, v in kpi_values.items())
RECURSIVE JoinKpi(_)
JoinKpi(kpi_values) ==
    IF kpi_values = <<>> THEN <<>>
    ELSE Head(kpi_values)[1] \o ColonSpace \o Head(kpi_values)[2]
         \o (IF Tail(kpi_values) = <<>> THEN <<>> ELSE CommaSpace \o JoinKpi(Tail(kpi_values)))

DetailRow(msg) ==
    << Strftime(msg.timestamp),
       msg.text,
       IF msg.kpi_values # <<>> THEN JoinKpi(msg.kpi_values) ELSE Dash >>

RECURSIVE DetailRows(_)
DetailRows(messages) ==
    IF messages = <<>> THEN <<>>
    ELSE <<DetailRow(Head(messages))>> \o DetailRows(Tail(messages))

\* _prepare_detail_data
PrepareDetailData(person_name, messages) ==
    <<DetailHeaders>> \o DetailRows(SortedNewestFirst(messages))

DetailSheetName(person_name) == DetailSheetPrefix \o person_name

(***************************************************************************)
(* The spreadsheet (sheets_client.py): a dict from sheet title to the      *)
(* sheet's values, the rows of cells with <<>> a blank cell.  Blank cells  *)
(* at the end of a row and blank rows at the end of a sheet are not part   *)
(* of the values.  Cells hold the text that was entered.                   *)
(***************************************************************************)
RECURSIVE TrimRow(_)
TrimRow(row) ==
    IF row # <<>> /\ row[Len(row)] = <<>> THEN TrimRow(SubSeq(row, 1, Len(row) - 1)) ELSE row

RECURSIVE TrimRows(_)
TrimRows(rows) ==
    IF rows # <<>> /\ rows[Len(rows)] = <<>> THEN TrimRows(SubSeq(rows, 1, Len(rows) - 1))
    ELSE rows

Normalise(rows) == TrimRows([i \in DOMAIN rows |-> TrimRow(rows[i])])

\* the columns A:Z of the range that clear_sheet clears
ClearColumns == 26

\* values().clear(range='<sheet>'!A:Z)
ClearValues(rows) ==
    Normalise([i \in DOMAIN rows |->
                 [j \in DOMAIN rows[i] |-> IF j <= ClearColumns THEN <<>> ELSE rows[i][j]]])

RowAt(rows, i) == IF i <= Len(rows) THEN rows[i] ELSE <<>>

\* values().update(range='<sheet>'!A1, body={"values": data}): the cells of
\* data are written from the top-left cell, every other cell keeps its value
UpdateValues(rows, data) ==
    LET n == IF Len(rows) > Len(data) THEN Len(rows) ELSE Len(data)
    IN  Normalise([i \in 1 .. n |->
                     IF i <= Len(data)
                     THEN data[i] \o Drop(RowAt(rows, i), Len(data[i]) + 1)
                     ELSE rows[i]])

\* one call of a backend API, as it is recorded in the log
Call(op, arg, ok) == [op |-> op, arg |-> arg, ok |-> ok]

\* ensure_sheet_exists(sheet_name) followed by
\* write_data(sheet_name, data, clear_first=True) on the spreadsheet sp.
\* fg, fa, fc, fu: the get, addSheet, clear and update call fails for a reason
\* of its own.  A call on a sheet that is absent fails, addSheet of a sheet that
\* is present fails with "already exists".
\* The result: the spreadsheet, what write_data returns, the calls made.
WriteSheet(sp, sheet_name, data, fg, fa, fc, fu) ==
    LET existing_sheets == IF fg THEN {} ELSE DictKeys(sp)
        add == sheet_name \notin existing_sheets
        created == add /\ ~DictHas(sp, sheet_name) /\ ~fa
        sp1 == IF created THEN Append(sp, <<sheet_name, <<>>>>) ELSE sp
        present == DictHas(sp1, sheet_name)
        cleared == present /\ ~fc
        sp2 == IF cleared
               THEN DictSet(sp1, sheet_name, ClearValues(DictGet(sp1, sheet_name)))
               ELSE sp1
        updated == present /\ ~fu
        sp3 == IF updated
               THEN DictSet(sp2, sheet_name, UpdateValues(DictGet(sp2, sheet_name), data))
               ELSE sp2
    IN  [spreadsheet |-> sp3,
         ok |-> updated,
         calls |-> <<Call("get", sheet_name, ~fg)>>
                   \o (IF add THEN <<Call("addSheet", sheet_name, created)>> ELSE <<>>)
                   \o <<Call("clear", sheet_name, cleared),
                        Call("update", sheet_name, updated)>>]

\* the failures that WriteSheet can be given on sp: a call fails for a reason
\* of its own only where it would succeed otherwise
FaultsPossible(sp, sheet_name, fg, fa, fc, fu) ==
    LET add == fg \/ ~DictHas(sp, sheet_name)
        present == DictHas(sp, sheet_name) \/ (add /\ ~fa)
    IN  /\ fa => (add /\ ~DictHas(sp, sheet_name))
        /\ fc => present
        /\ fu => present

CountTrue(flags) == Cardinality({i \in DOMAIN flags : flags[i]})

(***************************************************************************)
(* The Slack workspace and the spreadsheet the command is run against.     *)
(***************************************************************************)
\* 田中, 鈴木, 佐藤
Tanaka == <<30000, 20013>>
Suzuki == <<37428, 26408>>
Sato == <<20304, 34276>>

ChanTanaka == [id |-> <<67, 49>>, name |-> IndividualPrefix \o Tanaka, is_private |-> FALSE]
ChanSuzuki == [id |-> <<67, 50>>, name |-> IndividualPrefix \o Suzuki, is_private |-> TRUE]
ChanSato == [id |-> <<67, 51>>, name |-> IndividualPrefix \o Sato, is_private |-> FALSE]
\* 個人_山田, a channel with a longer history
ChanYamada ==
    [id |-> <<67, 53>>, name |-> IndividualPrefix \o <<23665, 30000>>, is_private |-> FALSE]
\* "general"
ChanGeneral ==
    [id |-> <<67, 52>>, name |-> <<103, 101, 110, 101, 114, 97, 108>>, is_private |-> FALSE]

Msg(text, ts) == [text |-> text, ts |-> ts]

\* "架電50件", "a: 1", "ok", " " and ""
TextKeyword == <<26550, 38651, 53, 48, 20214>>
TextLabeled == <<97, 58, 32, 49>>
TextPlain == <<111, 107>>
TextBlank == <<32>>
TextEmpty == <<>>

\* the messages of each channel, newest first, as conversations.history
\* returns them
History(channel_id) ==
    CASE channel_id = ChanTanaka.id ->
            <<Msg(TextKeyword, 12), Msg(TextEmpty, 9), Msg(TextPlain, 5)>>
      [] channel_id = ChanSuzuki.id -> <<Msg(TextBlank, 11), Msg(TextPlain, 8)>>
      [] channel_id = ChanSato.id -> <<Msg(TextLabeled, 7)>>
      [] channel_id = ChanYamada.id ->
            <<Msg(TextPlain, 20), Msg(TextBlank, 19), Msg(TextKeyword, 18),
              Msg(TextLabeled, 16), Msg(TextPlain, 13)>>
      [] OTHER -> <<Msg(TextPlain, 3)>>

\* the channel listings of the workspaces the command is run against
Workspaces ==
    { <<>>, <<ChanGeneral>>, <<ChanGeneral, ChanSato>>, <<ChanSuzuki, ChanGeneral, ChanTanaka>>,
      <<ChanTanaka, ChanSuzuki, ChanSato>>, <<ChanSato, ChanSuzuki, ChanTanaka>>,
      <<ChanSuzuki, ChanSato, ChanTanaka>>, <<ChanTanaka, ChanSato, ChanSuzuki>> }

\* --limit
Limits == {0, 2, 100}

\* the greatest number of messages the platform puts in one page
PageSizes == {2}

\* datetime.now() of the run
Clocks == {41}

\* "old" and "Sheet1"
Stale == <<111, 108, 100>>
Sheet1 == <<83, 104, 101, 101, 116, 49>>

StaleRows == [i \in 1 .. 5 |-> <<Stale, Stale>>]
WideRows == <<[j \in 1 .. ClearColumns + 1 |-> Stale]>>

\* the spreadsheets the command is run against: a new one; one that holds
\* longer tables of an earlier run; one whose overview sheet has been widened
\* beyond column Z
Spreadsheets ==
    { << <<Sheet1, <<>>>> >>,
      << <<OverviewSheet, StaleRows>>, <<DetailSheetName(Tanaka), StaleRows>>,
         <<DetailSheetName(Suzuki), StaleRows>>, <<DetailSheetName(Sato), StaleRows>> >>,
      << <<Sheet1, <<>>>>, <<OverviewSheet, WideRows>> >> }

\* the limit of one conversations.history request is min(limit, 200)
MaxPageLimit == 200

Min(a, b) == IF a < b THEN a ELSE b

\* conversations.history(channel, limit, cursor): the next messages of the
\* channel after the cursor (an offset, 0 for no cursor), at most limit and at
\* most size of them, and the next cursor, 0 when the history is exhausted
ConversationsHistory(channel_id, request_limit, crs, size) ==
    LET h == History(channel_id)
        k == Min(Min(size, request_limit), Len(h) - crs)
    IN  [messages |-> SubSeq(h, crs + 1, crs + k),
         next_cursor |-> IF crs + k < Len(h) THEN crs + k ELSE 0]

(***************************************************************************)
(* State.                                                                  *)
(***************************************************************************)
VARIABLES
    workspace,      \* Slack: the channels of the workspace
    page_size,      \* Slack: the page size of the platform
    spreadsheet,    \* Google Sheets: the sheets and their values
    now,            \* the wall clock
    args,           \* the command line: limit, no_details
    pc,             \* where main() is
    faults,         \* the API calls that have failed
    log,            \* the backend calls and table constructions, in order
    channels,       \* individual_channels of get_all_individual_kpi_data
    idx,            \* the channel of its for loop
    messages,       \* get_channel_messages: messages
    cursor,         \* get_channel_messages: cursor (0: None)
    fetched,        \* get_channel_messages: fetched
    pages,          \* the pages conversations.history has returned to it
    all_kpi_data,   \* sync_all_individual_kpi: all_kpi_data
    overview_data,  \* sync_all_individual_kpi: overview_data
    detail_data,    \* sync_all_individual_kpi: detail_data
    didx,           \* the item of the detail loop
    stats,          \* sync_all_individual_kpi: stats
    exit_code,      \* what main() returns, -1 while it runs
    name_idx,       \* sync_specific_channels: the name of its for loop
    argument,       \* a function applied on its own: its argument
    returned,       \* and what it has returned so far
    runs            \* how many times the command has been run

vars ==
    << workspace, page_size, spreadsheet, now, args, pc, faults, log, channels, idx,
       messages, cursor, fetched, pages, all_kpi_data, overview_data, detail_data, didx,
       stats, exit_code, name_idx, argument, returned, runs >>

\* what no step of main() changes
env == <<workspace, page_size, now, args, name_idx, argument, returned, runs>>
fetch_vars == <<messages, cursor, fetched, pages>>

Init ==
    /\ workspace \in Workspaces
    /\ page_size \in PageSizes
    /\ spreadsheet \in Spreadsheets
    /\ now \in Clocks
    /\ args \in [limit : Limits, no_details : BOOLEAN]
    /\ pc = "main"
    /\ faults = 0
    /\ log = <<>>
    /\ channels = <<>>
    /\ idx = 1
    /\ messages = <<>>
    /\ cursor = 0
    /\ fetched = 0
    /\ pages = <<>>
    /\ all_kpi_data = <<>>
    /\ overview_data = <<>>
    /\ detail_data = <<>>
    /\ didx = 1
    /\ stats = [channels_processed |-> 0, messages_synced |-> 0, errors |-> 0]
    /\ exit_code = -1
    /\ name_idx = 1
    /\ runs = 1
    /\ argument = <<>>
    /\ returned = <<>>

\* a call may fail while fewer than MaxFaults calls have failed
MayFail(n) == faults + n <= MaxFaults

Exit(code) ==
    /\ exit_code' = code
    /\ pc' = "done"

(***************************************************************************)
(* main() with the sync command (main.py), step by step.                   *)
(***************************************************************************)
\* main: Config.from_env() and config.validate()
Configure ==
    /\ pc = "main"
    /\ \E config_errors \in BOOLEAN :
         IF config_errors THEN Exit(1)
         ELSE /\ pc' = "initialize"
              /\ UNCHANGED exit_code
    /\ UNCHANGED << env, spreadsheet, faults, log, channels, idx, fetch_vars, all_kpi_data,
                    overview_data, detail_data, didx, stats >>

InitializeSlackOnly(slack_ok, sheets_ok) == slack_ok

\* what KPISynchronizer.initialize returns
InitializeResult(slack_ok, sheets_ok) == slack_ok /\ sheets_ok

\* main: synchronizer.initialize(), test_connection then authenticate
Initialize ==
    /\ pc = "initialize"
    /\ \E slack_ok \in BOOLEAN, sheets_ok \in BOOLEAN :
         /\ (~slack_ok => sheets_ok)
         /\ (~(slack_ok /\ sheets_ok) => MayFail(1))
         /\ faults' = faults + (IF slack_ok /\ sheets_ok THEN 0 ELSE 1)
         /\ log' = log \o <<Call("auth_test", <<>>, slack_ok)>>
                       \o (IF slack_ok THEN <<Call("authenticate", <<>>, sheets_ok)>> ELSE <<>>)
         /\ IF InitializeResult(slack_ok, sheets_ok)
            THEN /\ pc' = "sync"
                 /\ UNCHANGED exit_code
            ELSE Exit(1)
    /\ UNCHANGED << env, spreadsheet, channels, idx, fetch_vars, all_kpi_data, overview_data,
                    detail_data, didx, stats >>

\* get_all_individual_kpi_data: get_individual_channels(), the listing being
\* one page of conversations.list; a failed listing gives no channel
ListChannels ==
    /\ pc = "sync"
    /\ \E ok \in BOOLEAN :
         /\ (~ok => MayFail(1))
         /\ faults' = faults + (IF ok THEN 0 ELSE 1)
         /\ log' = Append(log, Call("conversations_list", <<>>, ok))
         /\ channels' = GetIndividualChannels(IF ok THEN workspace ELSE <<>>)
    /\ idx' = 1
    /\ all_kpi_data' = <<>>
    /\ pc' = IF channels' = <<>> THEN "tabulate" ELSE "fetch"
    /\ UNCHANGED << env, spreadsheet, fetch_vars, overview_data, detail_data, didx, stats,
                    exit_code >>

WhileFetchingInclusive(n, limit) == n <= limit

\* the test of "while fetched < limit"
WhileFetching(n, limit) == n < limit

\* get_channel_messages: one turn of "while fetched < limit", the request
\* succeeding
FetchPage ==
    /\ pc = "fetch"
    /\ WhileFetching(fetched, args.limit)
    /\ LET response == ConversationsHistory(channels[idx].id,
                                            Min(args.limit, MaxPageLimit), cursor, page_size)
           taken == Take(response.messages, args.limit - fetched)
       IN  /\ messages' = messages \o taken
           /\ fetched' = fetched + Len(taken)
           /\ cursor' = response.next_cursor
           /\ pages' = Append(pages, response.messages)
           /\ pc' = IF response.next_cursor = 0 THEN "parse" ELSE "fetch"
    /\ log' = Append(log, Call("conversations_history", channels[idx].id, TRUE))
    /\ UNCHANGED << env, spreadsheet, faults, channels, idx, all_kpi_data, overview_data,
                    detail_data, didx, stats, exit_code >>

\* get_channel_messages: the request raises SlackApiError, which ends the loop
\* with the messages collected so far
FetchFails ==
    /\ pc = "fetch"
    /\ WhileFetching(fetched, args.limit)
    /\ MayFail(1)
    /\ faults' = faults + 1
    /\ log' = Append(log, Call("conversations_history", channels[idx].id, FALSE))
    /\ pc' = "parse"
    /\ UNCHANGED << env, spreadsheet, channels, idx, fetch_vars, all_kpi_data, overview_data,
                    detail_data, didx, stats, exit_code >>

\* get_channel_messages: "while fetched < limit" is false
FetchLimitReached ==
    /\ pc = "fetch"
    /\ ~WhileFetching(fetched, args.limit)
    /\ pc' = "parse"
    /\ UNCHANGED << env, spreadsheet, faults, log, channels, idx, fetch_vars, all_kpi_data,
                    overview_data, detail_data, didx, stats, exit_code >>

\* get_kpi_data_from_channel after the fetch, and the rest of the loop body of
\* get_all_individual_kpi_data (the name of an individual channel always has
\* a person name)
ParseChannel ==
    /\ pc = "parse"
    /\ all_kpi_data' = DictSet(all_kpi_data, ExtractPersonName(channels[idx].name)[1],
                               ParseAll(messages, channels[idx]))
    /\ idx' = idx + 1
    /\ messages' = <<>>
    /\ cursor' = 0
    /\ fetched' = 0
    /\ pages' = <<>>
    /\ pc' = IF idx + 1 > Len(channels) THEN "tabulate" ELSE "fetch"
    /\ UNCHANGED << env, spreadsheet, faults, log, channels, overview_data, detail_data, didx,
                    stats, exit_code >>

NoDataWithoutRecords(kpi_data) == \A i \in DOMAIN kpi_data : kpi_data[i][2] = <<>>

\* not all_kpi_data: the dict has no key
NoData(kpi_data) == kpi_data = <<>>

\* sync_all_individual_kpi: "if not all_kpi_data: return stats"
NoKpiData ==
    /\ pc = "tabulate"
    /\ NoData(all_kpi_data)
    /\ pc' = "report"
    /\ UNCHANGED << env, spreadsheet, faults, log, channels, idx, fetch_vars, all_kpi_data,
                    overview_data, detail_data, didx, stats, exit_code >>

\* sync_all_individual_kpi: overview_data = self._prepare_overview_data(...)
PrepareOverview ==
    /\ pc = "tabulate"
    /\ ~NoData(all_kpi_data)
    /\ overview_data' = PrepareOverviewData(all_kpi_data, now)
    /\ log' = Append(log, Call("prepare_overview", <<>>, TRUE))
    /\ pc' = "write_overview"
    /\ UNCHANGED << env, spreadsheet, faults, channels, idx, fetch_vars, all_kpi_data, detail_data,
                    didx, stats, exit_code >>

CreateDetailSheetsAlways(a) == TRUE

\* cmd_sync: create_detail_sheets=not args.no_details
CreateDetailSheets(a) == ~a.no_details

\* sync_all_individual_kpi: the overview sheet is ensured and written
WriteOverview ==
    /\ pc = "write_overview"
    /\ \E fg \in BOOLEAN, fa \in BOOLEAN, fc \in BOOLEAN, fu \in BOOLEAN :
         LET w == WriteSheet(spreadsheet, OverviewSheet, overview_data, fg, fa, fc, fu)
         IN  /\ FaultsPossible(spreadsheet, OverviewSheet, fg, fa, fc, fu)
             /\ MayFail(CountTrue(<<fg, fa, fc, fu>>))
             /\ faults' = faults + CountTrue(<<fg, fa, fc, fu>>)
             /\ spreadsheet' = w.spreadsheet
             /\ log' = log \o w.calls
             /\ stats' = IF w.ok
                         THEN [stats EXCEPT !.channels_processed = Len(all_kpi_data)]
                         ELSE stats
    /\ didx' = 1
    /\ pc' = IF CreateDetailSheets(args) THEN "details" ELSE "report"
    /\ UNCHANGED << env, channels, idx, fetch_vars, all_kpi_data, overview_data, detail_data,
                    exit_code >>

DetailStatsNoError(st, ok, n) ==
    IF ok THEN [st EXCEPT !.messages_synced = @ + n] ELSE st

\* sync_all_individual_kpi: the statistics after the write of a detail sheet
\* of n messages
DetailStats(st, ok, n) ==
    IF ok THEN [st EXCEPT !.messages_synced = @ + n]
    ELSE [st EXCEPT !.errors = @ + 1]

DetailNext == IF didx + 1 > Len(all_kpi_data) THEN "report" ELSE "details"

HasMessagesAlways(msgs) == TRUE

\* sync_all_individual_kpi: "if messages:" of the detail loop
HasMessages(msgs) == msgs # <<>>

DetailCallsBuiltLast(person_name, calls) ==
    calls \o <<Call("prepare_detail", person_name, TRUE)>>

\* one turn of the detail loop in the log: _prepare_detail_data, then the
\* calls of ensure_sheet_exists and write_data
DetailCalls(person_name, calls) ==
    <<Call("prepare_detail", person_name, TRUE)>> \o calls

\* sync_all_individual_kpi: one turn of the detail loop for a person with
\* messages: the detail table is built, its sheet ensured and written
WriteDetail ==
    /\ pc = "details"
    /\ HasMessages(all_kpi_data[didx][2])
    /\ \E fg \in BOOLEAN, fa \in BOOLEAN, fc \in BOOLEAN, fu \in BOOLEAN :
         LET person_name == all_kpi_data[didx][1]
             msgs == all_kpi_data[didx][2]
             detail_sheet_name == DetailSheetName(person_name)
             w == WriteSheet(spreadsheet, detail_sheet_name,
                             PrepareDetailData(person_name, msgs), fg, fa, fc, fu)
         IN  /\ FaultsPossible(spreadsheet, detail_sheet_name, fg, fa, fc, fu)
             /\ MayFail(CountTrue(<<fg, fa, fc, fu>>))
             /\ faults' = faults + CountTrue(<<fg, fa, fc, fu>>)
             /\ spreadsheet' = w.spreadsheet
             /\ log' = log \o DetailCalls(person_name, w.calls)
             /\ detail_data' = PrepareDetailData(person_name, msgs)
             /\ stats' = DetailStats(stats, w.ok, Len(msgs))
    /\ didx' = didx + 1
    /\ pc' = DetailNext
    /\ UNCHANGED << env, channels, idx, fetch_vars, all_kpi_data, overview_data, exit_code >>

\* sync_all_individual_kpi: one turn of the detail loop for a person without
\* messages
SkipDetail ==
    /\ pc = "details"
    /\ ~HasMessages(all_kpi_data[didx][2])
    /\ didx' = didx + 1
    /\ pc' = DetailNext
    /\ UNCHANGED << env, spreadsheet, faults, log, channels, idx, fetch_vars, all_kpi_data,
                    overview_data, detail_data, stats, exit_code >>

\* cmd_sync: return 0 if stats["errors"] == 0 else 1
Report ==
    /\ pc = "report"
    /\ Exit(IF stats.errors = 0 THEN 0 ELSE 1)
    /\ UNCHANGED << env, spreadsheet, faults, log, channels, idx, fetch_vars, all_kpi_data,
                    overview_data, detail_data, didx, stats >>

Next ==
    \/ Configure
    \/ Initialize
    \/ ListChannels
    \/ FetchPage
    \/ FetchFails
    \/ FetchLimitReached
    \/ ParseChannel
    \/ NoKpiData
    \/ PrepareOverview
    \/ WriteOverview
    \/ WriteDetail
    \/ SkipDetail
    \/ Report

Spec == Init /\ [][Next]_vars

(***************************************************************************)
(* The tabulator on its own: _prepare_overview_data and                    *)
(* _prepare_detail_data applied to the record sets of a bounded universe.  *)
(***************************************************************************)
\* the records of one person in a record set
MaxRecords == 3

ChannelOf(person_name) ==
    [id |-> person_name, name |-> IndividualPrefix \o person_name, is_private |-> FALSE]

\* the timestamps of the records: 4 and 5 are ticks of one second
RecordTimes == {4, 5, 9}
RecordTexts == {TextKeyword, TextPlain}

\* the raw messages a record is made from
RawMessages == {Msg(text, ts) : text \in RecordTexts, ts \in RecordTimes}

RawSeqs == UNION {[1 .. n -> RawMessages] : n \in 0 .. MaxRecords}

\* the orders in which the persons' channels can have been ingested
PersonOrders ==
    { <<>>, <<Tanaka>>, <<Suzuki, Sato>>, <<Sato, Tanaka>>,
      <<Tanaka, Suzuki, Sato>>, <<Tanaka, Sato, Suzuki>>, <<Suzuki, Tanaka, Sato>>,
      <<Suzuki, Sato, Tanaka>>, <<Sato, Tanaka, Suzuki>>, <<Sato, Suzuki, Tanaka>> }

\* the record sets: the persons in an order, the first with any records, the
\* others with none or with one record each
RecordSets ==
    { [i \in DOMAIN order |->
         <<order[i], ParseAll(IF i = 1 THEN raw ELSE other, ChannelOf(order[i]))>>] :
      order \in PersonOrders, raw \in RawSeqs, other \in {<<>>, <<Msg(TextLabeled, 7)>>} }

InitTab ==
    /\ workspace = <<>>
    /\ page_size \in PageSizes
    /\ spreadsheet = <<>>
    /\ now \in Clocks
    /\ args = [limit |-> 0, no_details |-> FALSE]
    /\ pc = "tab"
    /\ faults = 0
    /\ log = <<>>
    /\ channels = <<>>
    /\ idx = 1
    /\ messages = <<>>
    /\ cursor = 0
    /\ fetched = 0
    /\ pages = <<>>
    /\ all_kpi_data \in RecordSets
    /\ overview_data = <<>>
    /\ detail_data = <<>>
    /\ didx = 0
    /\ stats = [channels_processed |-> 0, messages_synced |-> 0, errors |-> 0]
    /\ exit_code = -1
    /\ name_idx = 1
    /\ runs = 1
    /\ argument = <<>>
    /\ returned = <<>>

\* overview_data = _prepare_overview_data(kpi_data)
BuildOverview ==
    /\ pc = "tab"
    /\ overview_data' = PrepareOverviewData(all_kpi_data, now)
    /\ pc' = "tab_overview"
    /\ UNCHANGED << env, spreadsheet, faults, log, channels, idx, fetch_vars, all_kpi_data,
                    detail_data, didx, stats, exit_code >>

\* detail_data = _prepare_detail_data(person_name, messages) for one of the
\* persons of the record set
BuildDetail ==
    /\ pc = "tab_overview"
    /\ \E i \in DOMAIN all_kpi_data :
         /\ didx' = i
         /\ detail_data' = PrepareDetailData(all_kpi_data[i][1], all_kpi_data[i][2])
    /\ pc' = "tab_detail"
    /\ UNCHANGED << env, spreadsheet, faults, log, channels, idx, fetch_vars, all_kpi_data,
                    overview_data, stats, exit_code >>

NextTab ==
    \/ BuildOverview
    \/ BuildDetail

SpecTab == InitTab /\ [][NextTab]_vars

(***************************************************************************)
(* What a run has done, read from its log.                                 *)
(***************************************************************************)
Called(op, arg) == \E i \in DOMAIN log : log[i].op = op /\ log[i].arg = arg

Failed(op, arg) == \E i \in DOMAIN log : log[i].op = op /\ log[i].arg = arg /\ ~log[i].ok

\* sync_all_individual_kpi has been entered
SyncRan == \E i \in DOMAIN log : log[i].op = "conversations_list"

\* get_all_individual_kpi_data has returned
IngestDone == SyncRan /\ pc \notin {"fetch", "parse"}

\* the detail sheets whose write_data has returned False
FailedDetailSheets ==
    {log[i].arg : i \in {j \in DOMAIN log :
                           log[j].op = "update" /\ ~log[j].ok /\ log[j].arg # OverviewSheet}}

PersonsWithRecords == {k \in DictKeys(all_kpi_data) : DictGet(all_kpi_data, k) # <<>>}

RECURSIVE TotalRecords(_)
TotalRecords(kpi_data) ==
    IF kpi_data = <<>> THEN 0 ELSE Len(Head(kpi_data)[2]) + TotalRecords(Tail(kpi_data))

\* the table a run has written to a sheet
TableOf(sheet_name) ==
    IF sheet_name = OverviewSheet THEN overview_data
    ELSE LET person_name == Drop(sheet_name, Len(DetailSheetPrefix) + 1)
         IN  PrepareDetailData(person_name, DictGet(all_kpi_data, person_name))

\* the person rows of the overview table
OverviewPersons == {overview_data[i][1] : i \in 2 .. Len(overview_data)}

OverviewRowOf(person_name) ==
    overview_data[CHOOSE i \in 2 .. Len(overview_data) : overview_data[i][1] = person_name]

PersonOf(channel) == ExtractPersonName(channel.name)[1]

\* the person of the detail table built last
LastDetailPerson ==
    LET built == {i \in DOMAIN log : log[i].op = "prepare_detail"}
    IN  log[CHOOSE i \in built : \A j \in built : j <= i].arg

(***************************************************************************)
(* C1.  Every sheet that a run has written with success holds exactly the  *)
(* table that was written, whatever it held before the run.                *)
(* Violated: clear_sheet swallows its own failure and write_data ignores   *)
(* what it returns, and clear_sheet clears the columns A:Z only.           *)
(***************************************************************************)
C1_WrittenSheetIsTable ==
    \A i \in DOMAIN log :
        (log[i].op = "update" /\ log[i].ok)
            => DictGet(spreadsheet, log[i].arg) = TableOf(log[i].arg)

(***************************************************************************)
(* C2.  A person whose channel fetch failed (on any page) has an empty     *)
(* record set, and every individual channel is ingested all the same.      *)
(* Violated: a failure on a later page keeps the records of the pages      *)
(* fetched before it.                                                      *)
(***************************************************************************)
C2_FailedFetchGivesNoRecords ==
    /\ \A i \in DOMAIN channels :
          (Failed("conversations_history", channels[i].id)
             /\ DictHas(all_kpi_data, PersonOf(channels[i])))
            => DictGet(all_kpi_data, PersonOf(channels[i])) = <<>>
    /\ IngestDone => \A i \in DOMAIN channels : DictHas(all_kpi_data, PersonOf(channels[i]))

(***************************************************************************)
(* C3.  Three individual channels, the fetch of the second fails, every    *)
(* sheet write succeeds: channels_processed = 2, errors >= 1, the overview *)
(* has rows for the first and the third person, the second is absent or    *)
(* has an empty-record row.                                                *)
(* Violated: the code reports channels_processed = 3 and errors = 0.       *)
(***************************************************************************)
C3_PartialFailureStatistics ==
    ( /\ pc = "done"
      /\ Len(channels) = 3
      /\ Failed("conversations_history", channels[2].id)
      /\ ~Failed("conversations_history", channels[1].id)
      /\ ~Failed("conversations_history", channels[3].id)
      /\ Called("update", OverviewSheet)
      /\ \A i \in DOMAIN log : log[i].op = "update" => log[i].ok )
    => /\ stats.channels_processed = 2
       /\ stats.errors >= 1
       /\ PersonOf(channels[1]) \in OverviewPersons
       /\ PersonOf(channels[3]) \in OverviewPersons
       /\ PersonOf(channels[2]) \in OverviewPersons
            => OverviewRowOf(PersonOf(channels[2]))[3] = Str(0)

(***************************************************************************)
(* C4.  With detail sheets enabled, the errors count is the number of      *)
(* detail sheets whose write failed, and once the detail loop has ended a  *)
(* write has been attempted for the detail sheet of every person with at   *)
(* least one record, whichever of the writes failed.                       *)
(***************************************************************************)
C4_DetailWritesAllAttempted ==
    /\ stats.errors = Cardinality(FailedDetailSheets)
    /\ (pc \in {"report", "done"} /\ Called("update", OverviewSheet) /\ ~args.no_details)
         => \A person_name \in PersonsWithRecords :
                Called("update", DetailSheetName(person_name))

\* two detail writes have failed, and a later one has succeeded
C4_Witness ==
    /\ pc = "done"
    /\ stats.errors = 2
    /\ \E i \in DOMAIN log, j \in DOMAIN log :
          /\ i < j
          /\ log[i].op = "update" /\ log[i].arg # OverviewSheet /\ ~log[i].ok
          /\ log[j].op = "update" /\ log[j].arg # OverviewSheet /\ log[j].ok

(***************************************************************************)
(* C5.  The exit status of a sync is 1 when a channel fetch, the overview  *)
(* write or a detail write failed, and 0 when none did.                    *)
(* Violated: only a failed detail write is counted in errors.              *)
(***************************************************************************)
ErrorOccurred ==
    \E i \in DOMAIN log : log[i].op \in {"conversations_history", "update"} /\ ~log[i].ok

C5_ExitStatusReflectsErrors ==
    (pc = "done" /\ SyncRan)
        => /\ exit_code = (IF ErrorOccurred THEN 1 ELSE 0)
           /\ ErrorOccurred => stats.errors > 0

(***************************************************************************)
(* C6.  When the Slack connection test or the Google authentication fails, *)
(* the run has ended with exit status 1 and has made no other backend call:*)
(* no channel listing, message fetch, sheet creation, clear or write.      *)
(***************************************************************************)
ConnectionFailed ==
    \E i \in DOMAIN log : log[i].op \in {"auth_test", "authenticate"} /\ ~log[i].ok

C6_ConnectionFailureIsFatal ==
    ConnectionFailed
        => /\ pc = "done"
           /\ exit_code = 1
           /\ \A i \in DOMAIN log : log[i].op \in {"auth_test", "authenticate"}
           /\ spreadsheet \in Spreadsheets
           /\ channels = <<>>
           /\ all_kpi_data = <<>>

\* the Slack test has passed and the Google authentication has failed
C6_Witness ==
    /\ pc = "done"
    /\ log = <<Call("auth_test", <<>>, TRUE), Call("authenticate", <<>>, FALSE)>>

(***************************************************************************)
(* C7.  When a channel's fetched messages are parsed, the person's records *)
(* are, in order, one record for each message but those whose text is      *)
(* empty or whitespace-only with no KPI value; and the tables count and    *)
(* list the records only: a dropped message is in no overview count, is no *)
(* latest message and has no detail row.                                   *)
(***************************************************************************)
Dropped(message) == Strip(message.text) = <<>> /\ ExtractKpiValues(message.text) = <<>>

Kept(msgs) == SelectSeq(msgs, LAMBDA m : ~Dropped(m))

C7_ParseStep ==
    pc = "parse"
        => LET records == DictGet(all_kpi_data', PersonOf(channels[idx]))
           IN  /\ Len(records) = Len(Kept(messages))
               /\ \A i \in DOMAIN records :
                     /\ records[i].text = Kept(messages)[i].text
                     /\ records[i].timestamp = FromTimestamp(Kept(messages)[i].ts)
                     /\ records[i].kpi_values = ExtractKpiValues(Kept(messages)[i].text)

C7_Tables ==
    /\ \A i \in 2 .. Len(overview_data) :
          /\ overview_data[i][3] = Str(Len(DictGet(all_kpi_data, overview_data[i][1])))
          /\ Strip(overview_data[i][5]) # <<>>
    /\ \A i \in 2 .. Len(detail_data) : Strip(detail_data[i][2]) # <<>>
    /\ detail_data # <<>> => Len(detail_data) = 1 + Len(DictGet(all_kpi_data, LastDetailPerson))

C8_MessagesSyncedIsTotal ==
    ( /\ pc = "done"
      /\ Called("update", OverviewSheet)
      /\ \A i \in DOMAIN log : log[i].op = "update" => log[i].ok )
    => stats.messages_synced = TotalRecords(all_kpi_data)

(***************************************************************************)
(* C9.  The overview table of a record set is the six-column header row    *)
(* followed by exactly one six-cell row per person of the record set, the  *)
(* rows in ascending lexicographic order of the person identifier,         *)
(* whatever the order of ingestion: 佐藤, 田中, 鈴木 for these three.      *)
(***************************************************************************)
C9_OverviewSortedByPerson ==
    pc \in {"tab_overview", "tab_detail"}
        => /\ Len(overview_data) = 1 + Len(all_kpi_data)
           /\ overview_data[1] = OverviewHeaders
           /\ \A i \in DOMAIN overview_data : Len(overview_data[i]) = 6
           /\ OverviewPersons = DictKeys(all_kpi_data)
           /\ \A i \in 2 .. Len(overview_data), j \in 2 .. Len(overview_data) :
                 i < j => StrLess(overview_data[i][1], overview_data[j][1])
           /\ DictKeys(all_kpi_data) = {Tanaka, Suzuki, Sato}
                => <<overview_data[2][1], overview_data[3][1], overview_data[4][1]>>
                     = <<Sato, Tanaka, Suzuki>>

\* the overview of a record set ingested in the order 田中, 鈴木, 佐藤
C9_Witness ==
    /\ pc = "tab_overview"
    /\ Len(all_kpi_data) = 3
    /\ <<all_kpi_data[1][1], all_kpi_data[2][1], all_kpi_data[3][1]>> = <<Tanaka, Suzuki, Sato>>
    /\ overview_data[2][1] = Sato

(***************************************************************************)
(* C10.  The detail table of a person's records is the three-column header *)
(* followed by exactly one row per record: the rows are those of the       *)
(* records taken in an order of non-increasing timestamps (T3, T2, T1 for  *)
(* T1 < T2 < T3), whatever the ingest order was.                           *)
(***************************************************************************)
C10_DetailNewestFirst ==
    pc = "tab_detail"
        => LET records == all_kpi_data[didx][2]
               n == Len(records)
           IN  /\ detail_data[1] = DetailHeaders
               /\ Len(DetailHeaders) = 3
               /\ Len(detail_data) = 1 + n
               /\ \E perm \in Permutations(1 .. n) :
                     /\ \A i \in 1 .. n : detail_data[i + 1] = DetailRow(records[perm[i]])
                     /\ \A i \in 1 .. n, j \in 1 .. n :
                           i < j => records[perm[i]].timestamp >= records[perm[j]].timestamp

\* the detail table of three records ingested oldest first
C10_Witness ==
    /\ pc = "tab_detail"
    /\ Len(all_kpi_data[didx][2]) = 3
    /\ all_kpi_data[didx][2][1].timestamp < all_kpi_data[didx][2][2].timestamp
    /\ all_kpi_data[didx][2][2].timestamp < all_kpi_data[didx][2][3].timestamp
    /\ detail_data[2][1] = Strftime(all_kpi_data[didx][2][3].timestamp)
    /\ detail_data[4][1] = Strftime(all_kpi_data[didx][2][1].timestamp)

(***************************************************************************)
(* The channel classifier on its own: the filter of                        *)
(* get_individual_channels and extract_person_name applied to the channel  *)
(* names of a bounded universe.                                            *)
(***************************************************************************)
\* the length of a channel name
MaxNameLen == 5

\* 個, 人, _, 田 and the line break
NameChars == {20491, 20154, 95, 30000, 10}

ChannelNames == UNION {[1 .. n -> NameChars] : n \in 0 .. MaxNameLen}

\* the state in which a function is applied on its own to an argument
Apply(arg, label) ==
    /\ workspace = <<>>
    /\ page_size \in PageSizes
    /\ spreadsheet = <<>>
    /\ now \in Clocks
    /\ args = [limit |-> 0, no_details |-> FALSE]
    /\ pc = label
    /\ faults = 0
    /\ log = <<>>
    /\ channels = <<>>
    /\ idx = 1
    /\ messages = <<>>
    /\ cursor = 0
    /\ fetched = 0
    /\ pages = <<>>
    /\ all_kpi_data = <<>>
    /\ overview_data = <<>>
    /\ detail_data = <<>>
    /\ didx = 1
    /\ stats = [channels_processed |-> 0, messages_synced |-> 0, errors |-> 0]
    /\ exit_code = -1
    /\ name_idx = 1
    /\ runs = 1
    /\ argument = arg
    /\ returned = <<>>

InitClassify == \E name \in ChannelNames : Apply(name, "classify")

\* get_individual_channels on a listing of the one channel of that name, and
\* extract_person_name(name)
Classify ==
    /\ pc = "classify"
    /\ returned' =
         [individual |->
              GetIndividualChannels(<<[id |-> <<>>, name |-> argument,
                                       is_private |-> FALSE]>>) # <<>>,
          person_name |-> ExtractPersonName(argument)]
    /\ pc' = "classified"
    /\ UNCHANGED << runs, workspace, page_size, spreadsheet, now, args, faults, log, channels, idx,
                    fetch_vars, all_kpi_data, overview_data, detail_data, didx, stats,
                    exit_code, name_idx, argument >>

SpecClassify == InitClassify /\ [][Classify]_vars

HasPrefix(name) ==
    /\ Len(name) > Len(IndividualPrefix)
    /\ SubSeq(name, 1, Len(IndividualPrefix)) = IndividualPrefix

Remainder(name) == SubSeq(name, Len(IndividualPrefix) + 1, Len(name))

\* C11: a channel name is classified as an individual channel exactly when it
\* is "個人_" followed by at least one further character, and
\* extract_person_name returns the whole remainder after "個人_" in that case
\* and None otherwise, line breaks in the name included.
C11_ClassifierTotal ==
    pc = "classified"
        => /\ returned.individual = HasPrefix(argument)
           /\ returned.person_name =
                IF HasPrefix(argument) THEN Some(Remainder(argument)) ELSE None

\* the same for the names without a line break
C11_WithoutLineBreak ==
    (pc = "classified" /\ \A i \in DOMAIN argument : argument[i] \notin Newline)
        => /\ returned.individual = HasPrefix(argument)
           /\ returned.person_name =
                IF HasPrefix(argument) THEN Some(Remainder(argument)) ELSE None

(***************************************************************************)
(* get_sync_status (kpi_sync.py) on its own, applied to the overview       *)
(* sheets of a bounded universe.                                           *)
(***************************************************************************)
\* the superscript digits: characters for which str.isdigit() is true and
\* that int() rejects
OtherDigits == {178, 179, 185}

\* str.isdigit()
IsDigit(s) == s # <<>> /\ \A i \in DOMAIN s : s[i] \in Digits \cup OtherDigits

DigitValue(c) == IF c \in 48 .. 57 THEN c - 48 ELSE c - 65296

\* int(s) for a string s of which isdigit() is true: Some(value), or None when
\* it raises ValueError
RECURSIVE ParseInt(_)
ParseInt(s) ==
    IF s = <<>> THEN Some(0)
    ELSE LET front == ParseInt(SubSeq(s, 1, Len(s) - 1))
         IN  IF front = None \/ s[Len(s)] \notin Digits THEN None
             ELSE Some(front[1] * 10 + DigitValue(s[Len(s)]))

\* read_data(sheet_name): the values of the sheet, [] when the call fails
ReadData(sp, sheet_name, ok) ==
    IF ok /\ DictHas(sp, sheet_name) THEN DictGet(sp, sheet_name) ELSE <<>>

\* the rows of data[1:] that the generator of the sum lets through
Counted(data) ==
    {i \in DOMAIN data : i > 1 /\ Len(data[i]) > 2 /\ IsDigit(data[i][3])}

RECURSIVE SumCounts(_, _)
SumCounts(data, rows) ==
    IF rows = {} THEN 0
    ELSE LET i == CHOOSE i \in rows : TRUE
         IN  ParseInt(data[i][3])[1] + SumCounts(data, rows \ {i})

\* what get_sync_status returns when read_data has returned data; an
\* exception in the try block leaves the status as it is at that point
SyncStatus(data) ==
    LET status == [last_sync |-> None, channels_synced |-> 0, total_messages |-> 0]
    IN  IF Len(data) > 1
        THEN LET s1 == [status EXCEPT !.channels_synced = Len(data) - 1]
                 s2 == IF Len(data[2]) >= 6
                       THEN [s1 EXCEPT !.last_sync = Some(data[2][6])]
                       ELSE s1
             IN  IF \E i \in Counted(data) : ParseInt(data[i][3]) = None
                 THEN s2
                 ELSE [s2 EXCEPT !.total_messages = SumCounts(data, Counted(data))]
        ELSE status

\* the data rows of an overview sheet
MaxStatusRows == 2

\* the message-count cells: "5", "12", "x", "", "-3", "²" and "５"
CountCells == {<<53>>, <<49, 50>>, <<120>>, <<>>, <<45, 51>>, <<178>>, <<65301>>}

\* "2026-11-01 20:00:00"
SyncTime == <<50, 48, 50, 54, 45, 49, 49, 45, 48, 49, 32, 50, 48, 58, 48, 48, 58, 48, 48>>

\* rows of two, three and six cells
StatusRows ==
    {<<Tanaka, IndividualPrefix \o Tanaka>>}
        \cup {TrimRow(<<Tanaka, IndividualPrefix \o Tanaka, c>>) : c \in CountCells}
        \cup {<<Tanaka, IndividualPrefix \o Tanaka, c, Dash, Dash, SyncTime>> : c \in CountCells}

\* the spreadsheets get_sync_status is run against: without an overview
\* sheet, with an empty one, with the header row and data rows
StatusSpreadsheets ==
    { << <<Sheet1, <<>>>> >>, << <<OverviewSheet, <<>>>> >> }
        \cup { << <<OverviewSheet, <<OverviewHeaders>> \o rows>> >> :
               rows \in UNION {[1 .. n -> StatusRows] : n \in 0 .. MaxStatusRows} }

InitStatus ==
    /\ workspace = <<>>
    /\ page_size \in PageSizes
    /\ spreadsheet \in StatusSpreadsheets
    /\ now \in Clocks
    /\ args = [limit |-> 0, no_details |-> FALSE]
    /\ pc = "status"
    /\ faults = 0
    /\ log = <<>>
    /\ channels = <<>>
    /\ idx = 1
    /\ messages = <<>>
    /\ cursor = 0
    /\ fetched = 0
    /\ pages = <<>>
    /\ all_kpi_data = <<>>
    /\ overview_data = <<>>
    /\ detail_data = <<>>
    /\ didx = 1
    /\ stats = [channels_processed |-> 0, messages_synced |-> 0, errors |-> 0]
    /\ exit_code = -1
    /\ name_idx = 1
    /\ runs = 1
    /\ argument = <<>>
    /\ returned = <<>>

\* get_sync_status: read_data of the overview sheet, which fails when the
\* sheet is absent or for a reason of its own, and the status made of it
GetSyncStatus ==
    /\ pc = "status"
    /\ \E ok \in BOOLEAN :
         /\ (ok => DictHas(spreadsheet, OverviewSheet))
         /\ ((~ok /\ DictHas(spreadsheet, OverviewSheet)) => MayFail(1))
         /\ faults' = faults + (IF ~ok /\ DictHas(spreadsheet, OverviewSheet) THEN 1 ELSE 0)
         /\ log' = Append(log, Call("values_get", OverviewSheet, ok))
         /\ returned' = SyncStatus(ReadData(spreadsheet, OverviewSheet, ok))
    /\ pc' = "status_done"
    /\ UNCHANGED << runs, workspace, page_size, spreadsheet, now, args, channels, idx, fetch_vars,
                    all_kpi_data, overview_data, detail_data, didx, stats, exit_code,
                    name_idx, argument >>

SpecStatus == InitStatus /\ [][GetSyncStatus]_vars

\* the data that the read of the run has returned
DataRead == ReadData(spreadsheet, OverviewSheet, log[Len(log)].ok)

\* a cell that is a number: decimal digits only
Numeric(cell) == cell # <<>> /\ \A i \in DOMAIN cell : cell[i] \in Digits

NumericRows(data) == {i \in DOMAIN data : i > 1 /\ Len(data[i]) > 2 /\ Numeric(data[i][3])}

\* C12: whatever the overview sheet holds, get_sync_status returns a status
\* and writes nothing; total_messages is the sum of the numeric message-count
\* cells of the data rows, the rows that are too short or whose cell is not a
\* number being skipped, and last_sync is the sixth cell of the first data
\* row when there is one.
C12_StatusSkipsMalformed ==
    pc = "status_done"
        => /\ \A i \in DOMAIN log : log[i].op = "values_get"
           /\ spreadsheet \in StatusSpreadsheets
           /\ returned.total_messages = SumCounts(DataRead, NumericRows(DataRead))
           /\ returned.last_sync =
                IF Len(DataRead) > 1 /\ Len(DataRead[2]) >= 6
                THEN Some(DataRead[2][6]) ELSE None

\* the same for the sheets without a superscript digit in a message-count cell
C12_WithoutOtherDigits ==
    (pc = "status_done" /\ Counted(DataRead) = NumericRows(DataRead))
        => /\ \A i \in DOMAIN log : log[i].op = "values_get"
           /\ returned.total_messages = SumCounts(DataRead, NumericRows(DataRead))
           /\ returned.last_sync =
                IF Len(DataRead) > 1 /\ Len(DataRead[2]) >= 6
                THEN Some(DataRead[2][6]) ELSE None

(***************************************************************************)
(* sync_specific_channels (kpi_sync.py), step by step.  args holds the     *)
(* arguments of the call, channels the listing of get_all_channels and idx *)
(* the channel of the listing that is being fetched.                       *)
(***************************************************************************)
\* the number of requested channel names
MaxNames == 3

\* 田中, a channel named as the person of 個人_田中 is
ChanTanakaPlain == [id |-> <<67, 54>>, name |-> Tanaka, is_private |-> FALSE]

\* "none", the name of no channel
NoChannel == <<110, 111, 110, 101>>

\* the names that are requested
RequestNames ==
    {ChanTanaka.name, ChanSuzuki.name, ChanGeneral.name, ChanTanakaPlain.name, NoChannel}

Requests == UNION {[1 .. n -> RequestNames] : n \in 0 .. MaxNames}

InitSpecific ==
    /\ workspace \in {<<>>, <<ChanGeneral, ChanTanaka, ChanSuzuki, ChanTanakaPlain>>}
    /\ page_size \in PageSizes
    /\ spreadsheet = << <<Sheet1, <<>>>> >>
    /\ now \in Clocks
    /\ args \in [limit : {0, 2}, channel_names : Requests]
    /\ pc = "specific"
    /\ faults = 0
    /\ log = <<>>
    /\ channels = <<>>
    /\ idx = 1
    /\ messages = <<>>
    /\ cursor = 0
    /\ fetched = 0
    /\ pages = <<>>
    /\ all_kpi_data = <<>>
    /\ overview_data = <<>>
    /\ detail_data = <<>>
    /\ didx = 1
    /\ stats = [channels_processed |-> 0, messages_synced |-> 0, errors |-> 0]
    /\ exit_code = -1
    /\ name_idx = 1
    /\ runs = 1
    /\ argument = <<>>
    /\ returned = <<>>

\* name in channel_map
InChannelMap(all_channels, name) == \E i \in DOMAIN all_channels : all_channels[i].name = name

\* channel_map[name]: of the channels of that name, the last of the listing
ChannelMapIndex(all_channels, name) ==
    CHOOSE i \in DOMAIN all_channels :
        /\ all_channels[i].name = name
        /\ \A j \in DOMAIN all_channels : j > i => all_channels[j].name # name

\* all_channels = get_all_channels(), the listing being one page of
\* conversations.list; a failed listing gives no channel
ListAllChannels ==
    /\ pc = "specific"
    /\ \E ok \in BOOLEAN :
         /\ (~ok => MayFail(1))
         /\ faults' = faults + (IF ok THEN 0 ELSE 1)
         /\ log' = Append(log, Call("conversations_list", <<>>, ok))
         /\ channels' = IF ok THEN workspace ELSE <<>>
    /\ name_idx' = 1
    /\ all_kpi_data' = <<>>
    /\ pc' = "lookup"
    /\ UNCHANGED << runs, workspace, page_size, spreadsheet, now, args, idx, fetch_vars,
                    overview_data, detail_data, didx, stats, exit_code, argument, returned >>

NotFoundStatsSilent(st) == st

\* the statistics after a name that is not in channel_map
NotFoundStats(st) == [st EXCEPT !.errors = @ + 1]

\* one turn of "for name in channel_names", the name not in channel_map
NameNotFound ==
    /\ pc = "lookup"
    /\ name_idx <= Len(args.channel_names)
    /\ ~InChannelMap(channels, args.channel_names[name_idx])
    /\ stats' = NotFoundStats(stats)
    /\ name_idx' = name_idx + 1
    /\ UNCHANGED << runs, workspace, page_size, spreadsheet, now, args, pc, faults, log, channels,
                    idx, fetch_vars, all_kpi_data, overview_data, detail_data, didx,
                    exit_code, argument, returned >>

\* one turn of "for name in channel_names", the name in channel_map:
\* get_kpi_data_from_channel(channel, message_limit) is entered
NameFound ==
    /\ pc = "lookup"
    /\ name_idx <= Len(args.channel_names)
    /\ InChannelMap(channels, args.channel_names[name_idx])
    /\ idx' = ChannelMapIndex(channels, args.channel_names[name_idx])
    /\ pc' = "fetch"
    /\ UNCHANGED << runs, workspace, page_size, spreadsheet, now, args, faults, log, channels,
                    fetch_vars, all_kpi_data, overview_data, detail_data, didx, stats,
                    exit_code, name_idx, argument, returned >>

\* get_kpi_data_from_channel after the fetch, and the rest of the turn
ParseSpecific ==
    /\ pc = "parse"
    /\ all_kpi_data' = DictSet(all_kpi_data, PersonOrName(args.channel_names[name_idx]),
                               ParseAll(messages, channels[idx]))
    /\ stats' = [stats EXCEPT !.channels_processed = @ + 1]
    /\ name_idx' = name_idx + 1
    /\ messages' = <<>>
    /\ cursor' = 0
    /\ fetched' = 0
    /\ pages' = <<>>
    /\ pc' = "lookup"
    /\ UNCHANGED << runs, workspace, page_size, spreadsheet, now, args, faults, log, channels, idx,
                    overview_data, detail_data, didx, exit_code, argument, returned >>

\* after the loop, "if kpi_data:" being false
SpecificNoData ==
    /\ pc = "lookup"
    /\ name_idx > Len(args.channel_names)
    /\ all_kpi_data = <<>>
    /\ pc' = "specific_done"
    /\ UNCHANGED << runs, workspace, page_size, spreadsheet, now, args, faults, log, channels, idx,
                    fetch_vars, all_kpi_data, overview_data, detail_data, didx, stats,
                    exit_code, name_idx, argument, returned >>

\* for person_name, messages in kpi_data.items(): the sum of len(messages)
RECURSIVE CountMessages(_)
CountMessages(kpi_data) ==
    IF kpi_data = <<>> THEN 0
    ELSE Len(Head(kpi_data)[2]) + CountMessages(Tail(kpi_data))

\* after the loop, "if kpi_data:" being true: the overview table is built,
\* its sheet ensured and written, what write_data returns being dropped, and
\* the messages are counted
WriteSpecific ==
    /\ pc = "lookup"
    /\ name_idx > Len(args.channel_names)
    /\ all_kpi_data # <<>>
    /\ overview_data' = PrepareOverviewData(all_kpi_data, now)
    /\ \E fg \in BOOLEAN, fa \in BOOLEAN, fc \in BOOLEAN, fu \in BOOLEAN :
         LET w == WriteSheet(spreadsheet, OverviewSheet, overview_data', fg, fa, fc, fu)
         IN  /\ FaultsPossible(spreadsheet, OverviewSheet, fg, fa, fc, fu)
             /\ MayFail(CountTrue(<<fg, fa, fc, fu>>))
             /\ faults' = faults + CountTrue(<<fg, fa, fc, fu>>)
             /\ spreadsheet' = w.spreadsheet
             /\ log' = log \o <<Call("prepare_overview", <<>>, TRUE)>> \o w.calls
    /\ stats' = [stats EXCEPT !.messages_synced = @ + CountMessages(all_kpi_data)]
    /\ pc' = "specific_done"
    /\ UNCHANGED << runs, workspace, page_size, now, args, channels, idx, fetch_vars, all_kpi_data,
                    detail_data, didx, exit_code, name_idx, argument, returned >>

NextSpecific ==
    \/ ListAllChannels
    \/ NameNotFound
    \/ NameFound
    \/ FetchPage
    \/ FetchFails
    \/ FetchLimitReached
    \/ ParseSpecific
    \/ SpecificNoData
    \/ WriteSpecific

SpecSpecific == InitSpecific /\ [][NextSpecific]_vars

\* the requested names that the loop of sync_specific_channels has dealt with
NamesDone == 1 .. (name_idx - 1)

NamesDoneIn(all_channels) ==
    {i \in NamesDone : InChannelMap(all_channels, args.channel_names[i])}

\* the counters of sync_specific_channels, a name being found when it is the
\* name of a channel of all_channels
SpecificCounters(all_channels) ==
    /\ stats.errors = Cardinality(NamesDone \ NamesDoneIn(all_channels))
    /\ stats.channels_processed = Cardinality(NamesDoneIn(all_channels))
    /\ \A i \in NamesDoneIn(all_channels) :
         DictHas(all_kpi_data, PersonOrName(args.channel_names[i]))
    /\ stats.channels_processed + stats.errors = Cardinality(NamesDone)
    /\ pc = "specific_done" => name_idx - 1 = Len(args.channel_names)

MaxFragments == 4

\* "a", ":", " ", "5", "7件", "【a】", "売上" and "."
Fragments ==
    {<<97>>, <<58>>, <<32>>, <<53>>, <<55, 20214>>, <<12304, 97, 12305>>,
     <<22770, 19978>>, <<46>>}

RECURSIVE Concat(_)
Concat(parts) == IF parts = <<>> THEN <<>> ELSE Head(parts) \o Concat(Tail(parts))

\* "a:5 a:7件", "売上:5 売上7件" and "【a】5 a:7"
TextTwice == <<97, 58, 53, 32, 97, 58, 55, 20214>>
TextTwoFamilies == <<22770, 19978, 58, 53, 32, 22770, 19978, 55, 20214>>
TextBracketed == <<12304, 97, 12305, 53, 32, 97, 58, 55>>

\* the texts: every concatenation of up to MaxFragments fragments, and the
\* texts above
Texts ==
    {Concat(parts) : parts \in UNION {[1 .. n -> Fragments] : n \in 0 .. MaxFragments}}
        \cup {TextKeyword, TextLabeled, TextTwice, TextTwoFamilies, TextBracketed}

InitExtract == \E text \in Texts : Apply(text, "pattern1")

\* the pattern of the loop "for pattern, ... in patterns" that is applied next
PatternAt(label) ==
    CASE label = "pattern1" -> 1
      [] label = "pattern2" -> 2
      [] label = "pattern3" -> 3

AfterPattern(label) ==
    CASE label = "pattern1" -> "pattern2"
      [] label = "pattern2" -> "pattern3"
      [] label = "pattern3" -> "extracted"

\* one turn of "for pattern, ... in patterns": the matches of re.findall are
\* stored in kpi_values
ApplyPattern ==
    /\ pc \in {"pattern1", "pattern2", "pattern3"}
    /\ returned' = FindAll(PatternAt(pc), argument, 1, returned)
    /\ pc' = AfterPattern(pc)
    /\ UNCHANGED << runs, workspace, page_size, spreadsheet, now, args, faults, log, channels, idx,
                    fetch_vars, all_kpi_data, overview_data, detail_data, didx, stats,
                    exit_code, name_idx, argument >>

SpecExtract == InitExtract /\ [][ApplyPattern]_vars

\* the (label, value) pairs that re.findall gives for one pattern from
\* position i on, leftmost first
RECURSIVE Matches(_, _, _)
Matches(family, s, i) ==
    IF i > Len(s) THEN <<>>
    ELSE LET m == PatternMatch(family, s, i)
         IN  IF m[1] > 0
             THEN <<<<Strip(m[2]), Strip(m[3])>>>> \o Matches(family, s, m[1] + 1)
             ELSE Matches(family, s, i + 1)

\* the pairs of the three patterns, in the order generic labeled, bracketed,
\* domain keyword
AllMatches(text) == Matches(1, text, 1) \o Matches(2, text, 1) \o Matches(3, text, 1)

IsSubstring(v, text) ==
    \E i \in 1 .. Len(text) + 1 : \E j \in i - 1 .. Len(text) : SubSeq(text, i, j) = v

\* the value of the last pair with that label
LastValue(pairs, label) ==
    pairs[CHOOSE i \in DOMAIN pairs :
            /\ pairs[i][1] = label
            /\ \A j \in DOMAIN pairs : j > i => pairs[j][1] # label][2]

\* "架電" and "50件"
Kaden == <<26550, 38651>>
FiftyKen == <<53, 48, 20214>>

\* C14: _extract_kpi_values returns, for every text, a mapping with unique
\* labels whose values are substrings of the text; the labels are those of the
\* matches of the three pattern families, and the value of a label is that of
\* its last match in the order generic labeled, bracketed, domain keyword, and
\* left to right within a family.  "架電50件" gives {"架電": "50件"}.
C14_LastMatchWins ==
    pc = "extracted"
        => /\ \A i, j \in DOMAIN returned : returned[i][1] = returned[j][1] => i = j
           /\ \A i \in DOMAIN returned : IsSubstring(returned[i][2], argument)
           /\ DictKeys(returned) =
                {AllMatches(argument)[i][1] : i \in DOMAIN AllMatches(argument)}
           /\ \A i \in DOMAIN returned :
                returned[i][2] = LastValue(AllMatches(argument), returned[i][1])
           /\ returned = ExtractKpiValues(argument)
           /\ argument = TextKeyword => returned = << <<Kaden, FiftyKen>> >>

\* a label matched by two families with different values, and a label matched
\* twice by one family with different values
C14_Witness ==
    /\ pc = "extracted"
    /\ argument = TextTwoFamilies
    /\ Len(Matches(1, argument, 1)) = 1
    /\ Len(Matches(3, argument, 1)) = 2
    /\ Matches(1, argument, 1)[1] = <<<<22770, 19978>>, <<53>>>>
    /\ returned = << <<<<22770, 19978>>, <<55, 20214>>>> >>

\* C20: the generic labeled-value pattern gives an entry only when a colon,
\* ':' or the full-width colon, stands between the label and the number: from
\* a text without any colon it gives no entry.
C20_LabeledNeedsColon ==
    (pc = "pattern2" /\ \A i \in DOMAIN argument : argument[i] \notin Colons)
        => returned = <<>>

(***************************************************************************)
(* The phases of a sync run, read from its log.                            *)
(***************************************************************************)
FetchOps == {"conversations_history"}
TableOps == {"prepare_overview", "prepare_detail"}
WriteOps == {"addSheet", "clear", "update"}

\* no entry of the log with an operation of later is followed by one with an
\* operation of earlier
Precede(earlier, later) ==
    \A i, j \in DOMAIN log : (i < j /\ log[i].op \in later) => log[j].op \notin earlier

MaxLimit == 6

\* the fetch of one channel is entered, the limit being one of limits
FetchInit(limits) ==
    /\ workspace \in {<<ChanTanaka>>, <<ChanYamada>>}
    /\ page_size \in {1, 2, 3}
    /\ spreadsheet = <<>>
    /\ now \in Clocks
    /\ args \in [limit : limits, no_details : {FALSE}]
    /\ pc = "fetch"
    /\ faults = 0
    /\ log = <<>>
    /\ channels = workspace
    /\ idx = 1
    /\ messages = <<>>
    /\ cursor = 0
    /\ fetched = 0
    /\ pages = <<>>
    /\ all_kpi_data = <<>>
    /\ overview_data = <<>>
    /\ detail_data = <<>>
    /\ didx = 1
    /\ stats = [channels_processed |-> 0, messages_synced |-> 0, errors |-> 0]
    /\ exit_code = -1
    /\ name_idx = 1
    /\ runs = 1
    /\ argument = <<>>
    /\ returned = <<>>

InitFetch == FetchInit(0 .. MaxLimit)

NextFetch ==
    \/ FetchPage
    \/ FetchFails
    \/ FetchLimitReached
    \/ ParseChannel

SpecFetch == InitFetch /\ [][NextFetch]_vars

\* the first min(limit, total) messages of the pages the platform has
\* returned, in page order
FirstOfPages ==
    SubSeq(Concat(pages), 1, Min(args.limit, Len(Concat(pages))))

C16_Fetched == messages = FirstOfPages

C16_Recorded ==
    pc = "parse"
        => LET records == DictGet(all_kpi_data', PersonOf(channels[idx]))
               retained == Kept(FirstOfPages)
           IN  /\ Len(records) <= args.limit
               /\ [i \in DOMAIN records |-> <<records[i].text, records[i].timestamp>>]
                    = [i \in DOMAIN retained |->
                         <<retained[i].text, FromTimestamp(retained[i].ts)>>]

\* C16: whatever pages the platform returns for a channel and whatever the
\* limit, the messages fetched are the first min(limit, total) messages of the
\* pages in page order, and the records of the person are the retained ones
\* among them in that order, never more than limit.
C16_FirstMessagesOfPages == []C16_Fetched /\ [][C16_Recorded]_vars

\* the last page went beyond the limit, and a message was dropped
C16_Witness ==
    /\ pc = "parse"
    /\ Len(pages) = 2
    /\ Len(Concat(pages)) = 4
    /\ args.limit = 3
    /\ Len(messages) = 3
    /\ Len(Kept(messages)) = 2

\* the position of the first of the records with the greatest timestamp
FirstLatest(records) ==
    CHOOSE k \in DOMAIN records :
        /\ \A j \in DOMAIN records : records[j].timestamp <= records[k].timestamp
        /\ \A j \in 1 .. k - 1 : records[j].timestamp < records[k].timestamp

\* C17: the overview row of a person with records holds the number of the
\* person's records, and the time and the text of the record with the
\* greatest timestamp, the first of them in input order when several records
\* have that timestamp.
C17_LatestIsFirstMaximum ==
    overview_data # <<>>
        => \A person_name \in PersonsWithRecords :
              LET records == DictGet(all_kpi_data, person_name)
                  row == OverviewRowOf(person_name)
                  latest == records[FirstLatest(records)]
              IN  /\ row[3] = Str(Len(records))
                  /\ row[4] = Strftime(latest.timestamp)
                  /\ row[5] = latest.text

\* three records, the last two with the greatest timestamp and different
\* texts
C17_Witness ==
    /\ pc = "tab_overview"
    /\ Len(all_kpi_data) >= 1
    /\ Len(all_kpi_data[1][2]) = 3
    /\ all_kpi_data[1][2][1].timestamp < all_kpi_data[1][2][2].timestamp
    /\ all_kpi_data[1][2][2].timestamp = all_kpi_data[1][2][3].timestamp
    /\ all_kpi_data[1][2][2].text # all_kpi_data[1][2][3].text
    /\ OverviewRowOf(all_kpi_data[1][1])[5] = all_kpi_data[1][2][2].text

SheetOps == {"get", "addSheet", "clear", "update"}

\* the sheets a run has built a table for or has called the spreadsheet about
SheetsTouched ==
    {log[i].arg : i \in {j \in DOMAIN log : log[j].op \in SheetOps}}
        \cup {DetailSheetName(log[i].arg) : i \in {j \in DOMAIN log : log[j].op = "prepare_detail"}}

DetailSheetsDue ==
    IF args.no_details THEN {} ELSE {DetailSheetName(p) : p \in PersonsWithRecords}

\* C18: a run of sync_all_individual_kpi builds and writes a detail sheet for
\* the persons with at least one record and for no one else when detail
\* sheets are enabled; with --no-details it touches the overview sheet only.
C18_DetailSheetsOnlyWhenEnabled ==
    /\ SheetsTouched \subseteq {OverviewSheet} \cup DetailSheetsDue
    /\ (pc \in {"report", "done"} /\ Called("prepare_overview", <<>>))
         => /\ SheetsTouched = {OverviewSheet} \cup DetailSheetsDue
            /\ \A p \in PersonsWithRecords :
                  ~args.no_details
                      => /\ Called("prepare_detail", p)
                         /\ Called("update", DetailSheetName(p))

\* a run with --no-details that has ingested records of two persons
C18_Witness ==
    /\ pc = "done"
    /\ args.no_details
    /\ Cardinality(PersonsWithRecords) >= 2
    /\ Called("update", OverviewSheet)
    /\ ~Failed("update", OverviewSheet)

(***************************************************************************)
(* The tabulator applied to records whose texts are about TruncateLen      *)
(* characters long.                                                        *)
(***************************************************************************)
\* by how many characters a text exceeds TruncateLen at most
MaxExcess == 3

\* a text of n characters: "x" up to TruncateLen, then the character c
LongText(n, c) == [i \in 1 .. n |-> IF i <= TruncateLen THEN 120 ELSE c]

\* the texts of TruncateLen - 1 to TruncateLen + MaxExcess characters, ending
\* in "y" or in "。"
LongTexts == {LongText(n, c) : n \in TruncateLen - 1 .. TruncateLen + MaxExcess, c \in {121, 12290}}

\* the KPIMessage of such a text, in which no pattern matches
LongRecords ==
    { [channel_id |-> ChanTanaka.id,
       channel_name |-> ChanTanaka.name,
       user_name |-> Tanaka,
       timestamp |-> FromTimestamp(ts),
       text |-> text,
       kpi_values |-> <<>>] : text \in LongTexts, ts \in {4, 9} }

\* one person with one or two records of such texts
LongRecordSets ==
    { << <<Tanaka, records>> >> : records \in UNION {[1 .. n -> LongRecords] : n \in 1 .. 2} }

InitTrunc ==
    /\ workspace = <<>>
    /\ page_size \in PageSizes
    /\ spreadsheet = <<>>
    /\ now \in Clocks
    /\ args = [limit |-> 0, no_details |-> FALSE]
    /\ pc = "tab"
    /\ faults = 0
    /\ log = <<>>
    /\ channels = <<>>
    /\ idx = 1
    /\ messages = <<>>
    /\ cursor = 0
    /\ fetched = 0
    /\ pages = <<>>
    /\ all_kpi_data \in LongRecordSets
    /\ overview_data = <<>>
    /\ detail_data = <<>>
    /\ didx = 0
    /\ stats = [channels_processed |-> 0, messages_synced |-> 0, errors |-> 0]
    /\ exit_code = -1
    /\ name_idx = 1
    /\ runs = 1
    /\ argument = <<>>
    /\ returned = <<>>

SpecTrunc == InitTrunc /\ [][NextTab]_vars

\* C19: the latest-text cell of an overview row is the text of the latest
\* record as it is when the text has at most 200 characters, and its first
\* 200 characters followed by "..." when it has more, so the cell has at most
\* 203 characters.
C19_LatestTextTruncated ==
    overview_data # <<>>
        => \A person_name \in PersonsWithRecords :
              LET records == DictGet(all_kpi_data, person_name)
                  text == records[FirstLatest(records)].text
                  cell == OverviewRowOf(person_name)[5]
              IN  /\ Len(text) <= 200 => cell = text
                  /\ Len(text) > 200 => cell = SubSeq(text, 1, 200) \o <<46, 46, 46>>
                  /\ Len(cell) <= 203

\* a text of 200 characters, kept as it is
C19_Witness ==
    /\ pc = "tab_overview"
    /\ Len(all_kpi_data[1][2]) = 2
    /\ all_kpi_data[1][2][1].timestamp < all_kpi_data[1][2][2].timestamp
    /\ Len(all_kpi_data[1][2][1].text) = 202
    /\ Len(all_kpi_data[1][2][2].text) = 200
    /\ Len(overview_data[2][5]) = 200

(***************************************************************************)
(* The sync command run several times on one spreadsheet, the workspace    *)
(* and the command line changing between the runs.                         *)
(***************************************************************************)
\* the number of runs
MaxRuns == 2

\* the channel listings of the runs: a channel may have disappeared
RunWorkspaces == {<<ChanTanaka, ChanSuzuki>>, <<ChanTanaka>>, <<>>}

\* the command lines of the runs: with --limit 0 every person has no record
RunArgs == [limit : {0, 100}, no_details : BOOLEAN]

InitRuns ==
    /\ workspace \in RunWorkspaces
    /\ page_size \in PageSizes
    /\ spreadsheet = << <<Sheet1, <<>>>> >>
    /\ now \in Clocks
    /\ args \in RunArgs
    /\ pc = "main"
    /\ faults = 0
    /\ log = <<>>
    /\ channels = <<>>
    /\ idx = 1
    /\ messages = <<>>
    /\ cursor = 0
    /\ fetched = 0
    /\ pages = <<>>
    /\ all_kpi_data = <<>>
    /\ overview_data = <<>>
    /\ detail_data = <<>>
    /\ didx = 1
    /\ stats = [channels_processed |-> 0, messages_synced |-> 0, errors |-> 0]
    /\ exit_code = -1
    /\ name_idx = 1
    /\ runs = 1
    /\ argument = <<>>
    /\ returned = <<>>

\* the command is run again: main() starts anew on the spreadsheet as the
\* run before has left it
NextRun ==
    /\ pc = "done"
    /\ runs < MaxRuns
    /\ runs' = runs + 1
    /\ workspace' \in RunWorkspaces
    /\ args' \in RunArgs
    /\ pc' = "main"
    /\ log' = <<>>
    /\ channels' = <<>>
    /\ idx' = 1
    /\ messages' = <<>>
    /\ cursor' = 0
    /\ fetched' = 0
    /\ pages' = <<>>
    /\ all_kpi_data' = <<>>
    /\ overview_data' = <<>>
    /\ detail_data' = <<>>
    /\ didx' = 1
    /\ stats' = [channels_processed |-> 0, messages_synced |-> 0, errors |-> 0]
    /\ exit_code' = -1
    /\ UNCHANGED << page_size, spreadsheet, now, faults, name_idx, argument, returned >>

NextRuns ==
    \/ Next
    \/ NextRun

SpecRuns == InitRuns /\ [][NextRuns]_vars

\* the sheets a run may clear and write: the overview sheet and the detail
\* sheets of the persons with a record in the run
OwnSheets == {OverviewSheet} \cup {DetailSheetName(p) : p \in PersonsWithRecords}

C21_Step ==
    \A i \in DOMAIN spreadsheet :
        /\ DictHas(spreadsheet', spreadsheet[i][1])
        /\ spreadsheet[i][1] \notin OwnSheets
             => DictGet(spreadsheet', spreadsheet[i][1]) = spreadsheet[i][2]

\* C21: in a sequence of sync runs no step of a run deletes a sheet, and no
\* step changes a sheet other than the overview sheet and the detail sheets
\* of the persons with at least one record in that run: the detail sheet of a
\* person whose channel has disappeared or who has no record any more keeps
\* the rows of the earlier run.
C21_OtherSheetsKept == [][C21_Step]_vars

\* the second run has written the sheets of 田中 after the channel of 鈴木
\* has disappeared, and the detail sheet of 鈴木 holds the table of the
\* first run
C21_Witness ==
    /\ runs = 2
    /\ pc = "done"
    /\ ~DictHas(all_kpi_data, Suzuki)
    /\ Called("update", DetailSheetName(Tanaka))
    /\ ~Failed("update", DetailSheetName(Tanaka))
    /\ DictHas(spreadsheet, DetailSheetName(Suzuki))
    /\ DictGet(spreadsheet, DetailSheetName(Suzuki))
         = PrepareDetailData(Suzuki, ParseAll(History(ChanSuzuki.id), ChanSuzuki))

\* the values of the overview sheet begin, row by row, with the cells of the
\* overview table of the run
OverviewWritten ==
    /\ DictHas(spreadsheet, OverviewSheet)
    /\ \A i \in DOMAIN overview_data :
         /\ i <= Len(DictGet(spreadsheet, OverviewSheet))
         /\ SubSeq(RowAt(DictGet(spreadsheet, OverviewSheet), i), 1, Len(overview_data[i]))
              = overview_data[i]

\* the run has gone through the overview part of sync_all_individual_kpi
OverviewDone == SyncRan /\ pc \in {"details", "report", "done"}

\* what sync_all_individual_kpi has done when it returns early
C22_NothingDone ==
    /\ stats = [channels_processed |-> 0, messages_synced |-> 0, errors |-> 0]
    /\ \A i \in DOMAIN log : log[i].op \notin SheetOps \cup TableOps

\* the overview table has a row for each person of the mapping, and the
\* overview sheet has been cleared and written with it
C22_Rewritten ==
    /\ Len(overview_data) = 1 + Len(all_kpi_data)
    /\ Called("clear", OverviewSheet)
    /\ Called("update", OverviewSheet)
    /\ ~Failed("update", OverviewSheet) => OverviewWritten

\* C22, as stated: when no individual channel is found, the mapping being
\* empty, sync_all_individual_kpi returns the three counters at 0 and makes no
\* sheet operation; when at least one individual channel exists in the
\* workspace, even with no record in any of them, the overview sheet is
\* rewritten.
C22_ExistingChannelRewrites ==
    /\ (OverviewDone /\ all_kpi_data = <<>>) => C22_NothingDone
    /\ (OverviewDone /\ GetIndividualChannels(workspace) # <<>>) => C22_Rewritten

C22_State ==
    /\ (OverviewDone /\ all_kpi_data = <<>>) => C22_NothingDone
    /\ (OverviewDone /\ channels # <<>>)
         => /\ all_kpi_data # <<>>
            /\ C22_Rewritten

C22_Step == (SyncRan /\ all_kpi_data = <<>>) => spreadsheet' = spreadsheet

\* C22, amended: when no individual channel is found, the mapping being
\* empty, sync_all_individual_kpi returns the three counters at 0 and makes no
\* sheet operation, so the overview sheet of an earlier run stays as it is;
\* when the channel listing the run has obtained holds at least one individual
\* channel, even with no record in any of them, the overview table is built
\* with a row for each person and the overview sheet is cleared and written
\* with it.  An individual channel of the workspace that the listing does not
\* return, the listing request having failed, is not found.
C22_FoundChannelRewrites == []C22_State /\ [][C22_Step]_vars

\* a second run that finds no record in the channels it has found and writes
\* the overview over that of the first run
C22_Witness ==
    /\ runs = 2
    /\ pc = "done"
    /\ Len(all_kpi_data) = 2
    /\ PersonsWithRecords = {}
    /\ ~Failed("update", OverviewSheet)
    /\ OverviewWritten
    /\ DictGet(spreadsheet, OverviewSheet) = overview_data
    /\ DictHas(spreadsheet, DetailSheetName(Suzuki))

\* a second run that finds no individual channel and leaves the overview of
\* the first run
C22_EmptyReached ==
    /\ runs = 2
    /\ pc = "done"
    /\ SyncRan
    /\ all_kpi_data = <<>>
    /\ DictHas(spreadsheet, OverviewSheet)
    /\ Len(DictGet(spreadsheet, OverviewSheet)) = 3

(***************************************************************************)
(* C23: the overview table of sync_specific_channels against the counter.  *)
(***************************************************************************)
\* sync_specific_channels has returned after writing the overview table
SpecificWritten == pc = "specific_done" /\ all_kpi_data # <<>>

\* the data rows of the overview table are as many as channels_processed
C23_RowsAreProcessed == Len(overview_data) - 1 = stats.channels_processed

\* the records kept for the person of a requested name that was found are
\* records of the channel of that name
C23_RecordsOfOwnChannel ==
    \A i \in DOMAIN args.channel_names :
       LET name == args.channel_names[i]
       IN  InChannelMap(channels, name)
           => /\ DictHas(all_kpi_data, PersonOrName(name))
              /\ \A k \in DOMAIN DictGet(all_kpi_data, PersonOrName(name)) :
                    DictGet(all_kpi_data, PersonOrName(name))[k].channel_id
                        = channels[ChannelMapIndex(channels, name)].id

\* C23: after sync_specific_channels, for any list of requested names,
\* repeated names and names outside the 個人_ convention included, the
\* overview table it writes has as many data rows as the returned
\* channels_processed, and the records of no found channel are replaced by
\* those of another requested channel.
C23_RowsMatchProcessed ==
    SpecificWritten => C23_RowsAreProcessed /\ C23_RecordsOfOwnChannel

\* the same for requests without a repeated name and without two names of
\* one person
C23_DistinctPersons ==
    (/\ SpecificWritten
     /\ \A i, j \in DOMAIN args.channel_names :
           i # j => PersonOrName(args.channel_names[i]) # PersonOrName(args.channel_names[j]))
    => C23_RowsAreProcessed /\ C23_RecordsOfOwnChannel

\* a name requested twice: two channels processed, one row
C23_RepeatedName ==
    /\ SpecificWritten
    /\ args.channel_names = <<ChanTanaka.name, ChanTanaka.name>>
    /\ stats.channels_processed = 2
    /\ Len(overview_data) = 2

\* 個人_田中 then 田中: the records kept for 田中 are those of the channel 田中
C23_Replaced ==
    /\ SpecificWritten
    /\ args.channel_names = <<ChanTanaka.name, ChanTanakaPlain.name>>
    /\ Len(all_kpi_data) = 1
    /\ DictGet(all_kpi_data, Tanaka) # <<>>
    /\ \A k \in DOMAIN DictGet(all_kpi_data, Tanaka) :
          DictGet(all_kpi_data, Tanaka)[k].channel_id = ChanTanakaPlain.id

(***************************************************************************)
(* C24: the pagination loop of get_channel_messages ends, and when.  The   *)
(* program is one thread, so a step that can be taken is taken.            *)
(***************************************************************************)
\* a negative limit is among the limits
InitFetchSigned == FetchInit(-1 .. MaxLimit)

\* a turn of the loop of get_channel_messages, or its end
FetchStep == FetchPage \/ FetchFails \/ FetchLimitReached

SpecFetchFair == InitFetchSigned /\ [][NextFetch]_vars /\ WF_vars(FetchStep)

\* a page request is made in the step
PageRequested == Len(log') = Len(log) + 1 /\ log'[Len(log')].op = "conversations_history"

\* a page request is made only while fewer than limit messages are
\* collected, the last page, if any, came with a next cursor, and no request
\* has failed
C24_Step ==
    PageRequested
    => /\ Len(messages) < args.limit
       /\ pages # <<>> => cursor # 0
       /\ \A i \in DOMAIN log : log[i].ok

\* with limit <= 0 no request is made
C24_State == args.limit <= 0 => log = <<>>

\* C24: the pagination loop of get_channel_messages terminates for every
\* limit, the platform returning in the end a page without a next cursor; it
\* makes no further page request once limit messages are collected, once a
\* page has come without a next cursor, or once a request has failed; with
\* limit <= 0 it makes no request at all.
C24_PaginationEnds == <>(pc = "parse") /\ []C24_State /\ [][C24_Step]_vars

\* the loop has ended on the limit, after two pages, the platform having more
C24_Witness ==
    /\ pc = "parse"
    /\ Len(log) = 2
    /\ Len(pages) = 2
    /\ cursor # 0
    /\ Len(messages) = args.limit

\* the loop has ended on a failed request after a page
C24_FailedReached ==
    /\ pc = "parse"
    /\ Len(log) = 2
    /\ log[1].ok /\ ~log[2].ok
    /\ Len(messages) < args.limit

\* the loop has ended without a request, the limit being negative
C24_NegativeReached == pc = "parse" /\ args.limit < 0 /\ log = <<>>

====
